---- MODULE Spec2Model ----
(***************************************************************************)
(* Model of translate/translate.py: the batch translation pipeline of      *)
(* dijkstra_bot.  Strings are sequences of one-character strings, a YAML   *)
(* document is a record (kind, map), the file system is a function from    *)
(* paths to documents, and the translation backend is an environment that  *)
(* answers each call with its input, with one of its texts, or by raising. *)
(***************************************************************************)
EXTENDS Integers, Sequences, FiniteSets, TLC

(* ---------------------------- bounds ----------------------------------- *)
MaxKeys == 2
MaxLangs == 2
MaxRuns == 2
MaxStrLen == 5

Keys == 1..MaxKeys
LangIds == {"fr", "de"}
Dirs == {"", "res"}
Exts == {"yaml", "yml"}
Alphabet == {"@", "x"}

StringsUpTo(n) == UNION {[1..k -> Alphabet] : k \in 0..n}

(* ------------------------ MAGIC_WORD and re.sub ------------------------ *)
RECURSIVE RunLen(_, _)
\* number of consecutive "@" of s starting at index i
RunLen(s, i) ==
    IF i > Len(s) \/ s[i] # "@" THEN 0 ELSE 1 + RunLen(s, i + 1)

\* a pattern that stops after the first two "@"
MagicWordPairOnly(s, i) ==
    IF RunLen(s, i) >= 2 THEN 2 ELSE 0

\* MAGIC_WORD = re.compile(r'@@@*'): length of the match that starts at
\* index i, 0 when there is none.  "@@" followed by a greedy "@*".
MagicWord(s, i) ==
    IF RunLen(s, i) >= 2 THEN RunLen(s, i) ELSE 0

RECURSIVE SubFrom(_, _)
\* re.sub scanning left to right from index i: a match is replaced by "{}"
\* and the scan resumes after it, any other character is copied.
SubFrom(s, i) ==
    IF i > Len(s) THEN <<>>
    ELSE IF MagicWord(s, i) > 0
         THEN <<"{", "}">> \o SubFrom(s, i + MagicWord(s, i))
         ELSE <<s[i]>> \o SubFrom(s, i + 1)

\* MAGIC_WORD.sub('{}', s)
Sub(s) == SubFrom(s, 1)

\* get_lines that yields the recorded lines as they are
GetLinesRaw(ls) == ls

\* ValueToHashtag.get_lines: every recorded line with the marker replaced
GetLines(ls) == [i \in DOMAIN ls |-> Sub(ls[i])]

\* an append that skips a text already recorded
AppendLineDedup(ls, text) ==
    IF \E i \in DOMAIN ls : ls[i] = text THEN ls ELSE Append(ls, text)

\* self.lines.append(trans.text)
AppendLine(ls, text) == Append(ls, text)

(* ----------------------------- documents ------------------------------- *)
EmptyMap == [k \in {} |-> <<>>]
MapDoc(m) == [kind |-> "map", map |-> m]
NullDoc == [kind |-> "null", map |-> EmptyMap]
Absent == [kind |-> "absent", map |-> EmptyMap]

\* key membership that never finds the key
KeyInNever(key, doc) == FALSE

\* `key in out_yaml` for a mapping
KeyIn(key, doc) == key \in DOMAIN doc.map

\* zip(translated_keys, hashtag.get_lines()): pairs by position, as long as
\* the shorter of the two
Zip(ks, ls) ==
    LET n == IF Len(ks) < Len(ls) THEN Len(ks) ELSE Len(ls)
    IN  [i \in 1..n |-> <<ks[i], ls[i]>>]

RECURSIVE AssignAll(_, _, _)
\* out_yaml[key] = line for the pairs from index i on, in order
AssignAll(m, pairs, i) ==
    IF i > Len(pairs) THEN m
    ELSE LET k == pairs[i][1]
             m2 == [x \in DOMAIN m \cup {k} |->
                        IF x = k THEN pairs[i][2] ELSE m[x]]
         IN  AssignAll(m2, pairs, i + 1)

\* a merge that starts from an empty mapping
MergeFresh(doc, pairs) == MapDoc(AssignAll(EmptyMap, pairs, 1))

\* the loop of lines 54-56 on the loaded document; an empty batch leaves
\* the document as loaded, be it None (a batch is never queued on None:
\* line 47 raises first)
Merge(doc, pairs) ==
    IF Len(pairs) = 0 THEN doc ELSE MapDoc(AssignAll(doc.map, pairs, 1))

(* ------------------------------- paths --------------------------------- *)
Path(d, s, e) == [dir |-> d, stem |-> s, ext |-> e]
TargetPaths == [dir : Dirs, stem : LangIds, ext : Exts]

\* the target placed in the working directory
OutPathCwd(src, lang) == Path("", lang, "yaml")

\* os.path.join(os.path.dirname(source), f'{lang}.yaml')
OutPath(src, lang) == Path(src.dir, lang, "yaml")

\* a loop that walks the language list from its end
LangAtReversed(ls, i) == ls[Len(ls) + 1 - i]

\* `for lang in langs`: the language of the i-th iteration
LangAt(ls, i) == ls[i]

(* ------------------------------ state ---------------------------------- *)
VARIABLES
    srcPath,          \* args.source
    source,           \* the source file: its key/value pairs in file order
    langs,            \* args.langs
    backend,          \* texts the translation backend may answer with
    fs,               \* the target files on disk, by path
    pc,               \* position of translate() in its code
    run,              \* number of the current invocation of the program
    contents,         \* line 34
    li,               \* index of the `for lang in langs` loop
    ki,               \* index of the `for key, value in contents.items()` loop
    out_yaml,         \* lines 36, 44, 56
    translated_keys,  \* lines 37, 50
    lines,            \* ValueToHashtag.lines
    out_path,         \* lines 39-40
    log,              \* history: the file opens, the backend calls and the
                      \* "complete" diagnostics of this run, in order
    prev              \* history: the files at the start of this run, and the
                      \* log of the run before it

vars == <<srcPath, source, langs, backend, fs, pc, run, contents, li, ki,
          out_yaml, translated_keys, lines, out_path, log, prev>>

env == <<srcPath, source, langs, backend>>

NoPath == Path("", "", "")
NoText == <<>>

\* one entry of the log: the operation, the index and language of the
\* iteration it belongs to, and what the operation was given and returned
Ev(op, pos, path, key, text, resp, data) ==
    [op |-> op, pos |-> pos, lang |-> LangAt(langs, pos), path |-> path,
     key |-> key, text |-> text, resp |-> resp, data |-> data]

(* --------------------------- input domains ----------------------------- *)
SrcPool == {<<"h", "i">>, <<"a", "@", "@", "@">>}
OldPool == {<<"o", "@", "@">>}
BackendPool == {<<"T", "@", "@", "@">>}
MarkerExtra == {<<"{", "}">>, <<"{", "}", "@", "@">>}

\* flat key -> string mappings in file order, the empty mapping included:
\* no key twice.  Keys are named by their place in the source file; the
\* keys of a target file are any of Keys, in the source or not.
Sources(vals) ==
    UNION {{[i \in 1..n |-> <<i, v[i]>>] : v \in [1..n -> vals]} : n \in 0..MaxKeys}

\* what a target file may hold before the run: nothing, an empty document
\* (loaded as None), or a mapping over some of the keys
OldDocs(vals) ==
    {Absent, NullDoc} \cup
    {MapDoc(m) : m \in UNION {[D -> vals] : D \in SUBSET Keys}}

\* the language lists, up to the renaming of the languages: the first is "fr"
LangLists == UNION {{l \in [1..n -> LangIds] : l[1] = "fr"} : n \in 1..MaxLangs}

Range(f) == {f[i] : i \in DOMAIN f}

\* file systems in which only the targets of the run may exist
TargetFiles(src, ls, vals) ==
    {[p \in TargetPaths |->
        IF p.dir = src.dir /\ p.ext = "yaml" /\ p.stem \in Range(ls)
        THEN g[p.stem] ELSE Absent] : g \in [Range(ls) -> OldDocs(vals)]}

\* file systems in which any set of paths holds the same old document
ScatteredFiles(val) ==
    {[p \in TargetPaths |-> IF p \in S THEN d ELSE Absent] :
        S \in SUBSET TargetPaths, d \in {MapDoc([k \in {1} |-> val]), NullDoc}}

InitLocals ==
    /\ pc = "start"
    /\ run = 1
    /\ contents = <<>>
    /\ li = 0
    /\ ki = 0
    /\ out_yaml = MapDoc(EmptyMap)
    /\ translated_keys = <<>>
    /\ lines = <<>>
    /\ out_path = NoPath
    /\ log = <<>>
    /\ prev = [fs |-> fs, log |-> <<>>]

\* the pipeline on small sources, language lists and existing targets
Init ==
    /\ srcPath = Path("res", "en", "yaml")
    /\ source \in Sources(SrcPool)
    /\ langs \in LangLists
    /\ backend = BackendPool
    /\ fs \in TargetFiles(srcPath, langs, OldPool)
    /\ InitLocals

\* one key, one language, every short string as source value and as answer
InitMarker ==
    /\ srcPath = Path("res", "en", "yaml")
    /\ source \in {<<(<<1, v>>)>> : v \in StringsUpTo(MaxStrLen) \cup MarkerExtra}
    /\ langs = <<"fr">>
    /\ backend = StringsUpTo(MaxStrLen)
    /\ fs \in TargetFiles(srcPath, langs, OldPool)
    /\ InitLocals

\* every source directory and extension, files scattered over all paths
InitPath ==
    /\ srcPath \in {Path(d, "en", e) : d \in Dirs, e \in Exts}
    /\ source = <<(<<1, <<"h", "i">> >>)>>
    /\ langs \in LangLists
    /\ backend = {}
    /\ fs \in ScatteredFiles(<<"o">>)
    /\ InitLocals

(* ------------------------------ actions -------------------------------- *)
\* lines 33-34: open the source and parse it
LoadSource ==
    /\ pc = "start"
    /\ contents' = source
    /\ li' = 1
    /\ pc' = "lang"
    /\ UNCHANGED <<env, fs, run, ki, out_yaml, translated_keys, lines,
                   out_path, log, prev>>

\* an iteration that starts from an empty mapping whatever is on disk
BeginLangFresh ==
    /\ pc = "lang"
    /\ out_path' = OutPath(srcPath, LangAt(langs, li))
    /\ out_yaml' = MapDoc(EmptyMap)
    /\ translated_keys' = <<>>
    /\ lines' = <<>>
    /\ ki' = 1
    /\ pc' = "keys"
    /\ UNCHANGED <<env, fs, run, contents, li, log, prev>>

\* lines 36-45: the head of one iteration of the language loop
BeginLang ==
    /\ pc = "lang"
    /\ LET p == OutPath(srcPath, LangAt(langs, li))
       IN  /\ out_path' = p
           /\ IF fs[p].kind # "absent"
              THEN /\ out_yaml' = fs[p]
                   /\ log' = Append(log, Ev("read", li, p, 0, NoText, NoText, fs[p]))
              ELSE /\ out_yaml' = MapDoc(EmptyMap)
                   /\ log' = log
    /\ translated_keys' = <<>>
    /\ lines' = <<>>
    /\ ki' = 1
    /\ pc' = "keys"
    /\ UNCHANGED <<env, fs, run, contents, li, prev>>

\* lines 47-48: the key is in the target already
SkipKey ==
    /\ pc = "keys"
    /\ ki <= Len(contents)
    /\ out_yaml.kind = "map"
    /\ KeyIn(contents[ki][1], out_yaml)
    /\ ki' = ki + 1
    /\ UNCHANGED <<env, fs, pc, run, contents, li, out_yaml, translated_keys,
                   lines, out_path, log, prev>>

\* line 47 when the target file was empty: `key in None` raises TypeError
KeyTypeError ==
    /\ pc = "keys"
    /\ ki <= Len(contents)
    /\ out_yaml.kind = "null"
    /\ pc' = "crashed"
    /\ UNCHANGED <<env, fs, run, contents, li, ki, out_yaml, translated_keys,
                   lines, out_path, log, prev>>

\* lines 49-51 with value_to_hashtag (22-26): the backend answers
TranslateKey ==
    /\ pc = "keys"
    /\ ki <= Len(contents)
    /\ out_yaml.kind = "map"
    /\ ~KeyIn(contents[ki][1], out_yaml)
    /\ LET key == contents[ki][1]
           value == Sub(contents[ki][2])
       IN  \E text \in backend \cup {value} :
             /\ lines' = AppendLine(lines, text)
             /\ translated_keys' = Append(translated_keys, key)
             /\ log' = Append(log, Ev("call", li, NoPath, key, value, text, Absent))
    /\ ki' = ki + 1
    /\ UNCHANGED <<env, fs, pc, run, contents, li, out_yaml, out_path, prev>>

\* a failing backend that still leaves what was merged so far in the file
BackendFailsFlush ==
    /\ pc = "keys"
    /\ ki <= Len(contents)
    /\ out_yaml.kind = "map"
    /\ ~KeyIn(contents[ki][1], out_yaml)
    /\ log' = Append(log, Ev("fail", li, NoPath, contents[ki][1],
                             Sub(contents[ki][2]), NoText, Absent))
    /\ fs' = [fs EXCEPT ![out_path] =
                 Merge(out_yaml, Zip(translated_keys, GetLines(lines)))]
    /\ pc' = "crashed"
    /\ UNCHANGED <<env, run, contents, li, ki, out_yaml, translated_keys,
                   lines, out_path, prev>>

\* line 24 raises: the exception leaves translate() and ends the process
BackendFails ==
    /\ pc = "keys"
    /\ ki <= Len(contents)
    /\ out_yaml.kind = "map"
    /\ ~KeyIn(contents[ki][1], out_yaml)
    /\ log' = Append(log, Ev("fail", li, NoPath, contents[ki][1],
                             Sub(contents[ki][2]), NoText, Absent))
    /\ pc' = "crashed"
    /\ UNCHANGED <<env, fs, run, contents, li, ki, out_yaml, translated_keys,
                   lines, out_path, prev>>

\* the end of the key loop without its diagnostic
LangCompleteSilent ==
    /\ pc = "keys"
    /\ ki > Len(contents)
    /\ pc' = "merge"
    /\ UNCHANGED <<env, fs, run, contents, li, ki, out_yaml, translated_keys,
                   lines, out_path, log, prev>>

\* line 52: print(f'{lang} complete') when the key loop is exhausted
LangComplete ==
    /\ pc = "keys"
    /\ ki > Len(contents)
    /\ log' = Append(log, Ev("complete", li, NoPath, 0, NoText, NoText, Absent))
    /\ pc' = "merge"
    /\ UNCHANGED <<env, fs, run, contents, li, ki, out_yaml, translated_keys,
                   lines, out_path, prev>>

\* lines 54-58: merge the batch, overwrite the target, go to the next language
WriteTarget ==
    /\ pc = "merge"
    /\ LET doc == Merge(out_yaml, Zip(translated_keys, GetLines(lines)))
       IN  /\ out_yaml' = doc
           /\ fs' = [fs EXCEPT ![out_path] = doc]
           /\ log' = Append(log, Ev("write", li, out_path, 0, NoText, NoText, doc))
    /\ IF li < Len(langs)
       THEN /\ li' = li + 1
            /\ pc' = "lang"
       ELSE /\ li' = li
            /\ pc' = "done"
    /\ UNCHANGED <<env, run, contents, ki, translated_keys, lines, out_path, prev>>

\* the program is started again with the same arguments and source
Rerun ==
    /\ pc = "done"
    /\ run < MaxRuns
    /\ run' = run + 1
    /\ pc' = "start"
    /\ contents' = <<>>
    /\ li' = 0
    /\ ki' = 0
    /\ out_yaml' = MapDoc(EmptyMap)
    /\ translated_keys' = <<>>
    /\ lines' = <<>>
    /\ out_path' = NoPath
    /\ log' = <<>>
    /\ prev' = [fs |-> fs, log |-> log]
    /\ UNCHANGED <<env, fs>>

Next ==
    \/ LoadSource
    \/ BeginLang
    \/ SkipKey
    \/ KeyTypeError
    \/ TranslateKey
    \/ BackendFails
    \/ LangComplete
    \/ WriteTarget
    \/ Rerun

Spec == Init /\ [][Next]_vars
SpecMarker == InitMarker /\ [][Next]_vars
SpecPath == InitPath /\ [][Next]_vars

(* ------------------------ reading the history -------------------------- *)
Idx(op) == {i \in DOMAIN log : log[i].op = op}

\* the backend calls, answered or failed
CallIdx == Idx("call") \cup Idx("fail")

\* the state right after a target file was written
JustWritten == log # <<>> /\ log[Len(log)].op = "write"
LastEv == log[Len(log)]

\* the mapping that iteration p loaded: empty when it found no file
Loaded(p) ==
    IF \E r \in Idx("read") : log[r].pos = p
    THEN log[CHOOSE r \in Idx("read") : log[r].pos = p].data.map
    ELSE EmptyMap

\* the answered backend calls of iteration p, in the order they were made
CallsAt(p) ==
    LET IsCall(e) == e.op = "call" /\ e.pos = p
    IN  SelectSeq(log, IsCall)

SourceKeys == {source[i][1] : i \in DOMAIN source}
SourceValue(k) == source[CHOOSE i \in DOMAIN source : source[i][1] = k][2]

HasMarkerRun(s) == \E i \in 1..(Len(s) - 1) : s[i] = "@" /\ s[i + 1] = "@"
HasAt(s) == \E i \in 1..Len(s) : s[i] = "@"
HasPlaceholder(s) == \E i \in 1..(Len(s) - 1) : s[i] = "{" /\ s[i + 1] = "}"

RECURSIVE PlaceholderForFrom(_, _)
\* s with every maximal run of two or more "@" turned into one "{}", stated
\* position by position: the first "@" of such a run becomes "{}", its other
\* "@" vanish, everything else stays
PlaceholderForFrom(s, i) ==
    IF i > Len(s) THEN <<>>
    ELSE LET before == i > 1 /\ s[i - 1] = "@"
             after == i < Len(s) /\ s[i + 1] = "@"
             piece == IF s[i] # "@" THEN <<s[i]>>
                      ELSE IF before THEN <<>>
                      ELSE IF after THEN <<"{", "}">>
                      ELSE <<"@">>
         IN  piece \o PlaceholderForFrom(s, i + 1)

PlaceholderFor(s) == PlaceholderForFrom(s, 1)

(* ------------------------------- claims -------------------------------- *)

\* C1: a key that is in the target map when it is loaded gets no backend
\* call in that iteration, and the file written by the iteration holds the
\* loaded value for it, whatever the source value is.
C1_SkipExisting ==
    \A r \in Idx("read") : \A k \in DOMAIN log[r].data.map :
        /\ \A c \in CallIdx : ~(log[c].pos = log[r].pos /\ log[c].key = k)
        /\ (JustWritten /\ LastEv.pos = log[r].pos) =>
              /\ fs[LastEv.path].kind = "map"
              /\ k \in DOMAIN fs[LastEv.path].map
              /\ fs[LastEv.path].map[k] = log[r].data.map[k]

\* a file was written whose iteration loaded a key of the source with a
\* value that is not the source's, and translated another key
C1_Witness ==
    /\ JustWritten
    /\ \E k \in DOMAIN Loaded(LastEv.pos) \cap SourceKeys :
          Loaded(LastEv.pos)[k] # SourceValue(k)
    /\ Len(CallsAt(LastEv.pos)) > 0

\* C2: the written file's keys are the loaded keys together with the source
\* keys; loaded entries are unchanged; every source key that was missing
\* was submitted once, as its own (marker-normalised) source value, and is
\* stored with the (marker-restored) answer to that call.  With no file
\* before, the file is created with an entry for every source key.
C2_MergeResult ==
    JustWritten =>
        LET pre == Loaded(LastEv.pos)
            file == fs[LastEv.path]
            cs == CallsAt(LastEv.pos)
        IN  /\ file.kind \in {"map", "null"}
            /\ (prev.fs[LastEv.path] = Absent \/ SourceKeys # {}) => file.kind = "map"
            /\ DOMAIN file.map = DOMAIN pre \cup SourceKeys
            /\ \A k \in DOMAIN pre : file.map[k] = pre[k]
            /\ \A k \in SourceKeys \ DOMAIN pre :
                  /\ Cardinality({i \in DOMAIN cs : cs[i].key = k}) = 1
                  /\ \A i \in DOMAIN cs : cs[i].key = k =>
                        /\ cs[i].text = PlaceholderFor(SourceValue(k))
                        /\ file.map[k] = PlaceholderFor(cs[i].resp)

\* the first run created a file that did not exist, with all source keys
C2_Witness ==
    /\ JustWritten
    /\ run = 1
    /\ LastEv.pos = 1
    /\ prev.fs[LastEv.path] = Absent
    /\ Len(source) >= 2
    /\ DOMAIN fs[LastEv.path].map = SourceKeys

\* C3: the queued keys and the recorded translations have the same length
\* and the order of the calls; the written file stores the Nth queued key
\* with the answer to the Nth call, also when two queued values are equal.
C3_PositionalCorrespondence ==
    /\ pc \in {"keys", "merge"} =>
          LET cs == CallsAt(li)
          IN  /\ Len(translated_keys) = Len(cs)
              /\ Len(lines) = Len(cs)
              /\ \A i \in DOMAIN cs :
                    /\ translated_keys[i] = cs[i].key
                    /\ lines[i] = cs[i].resp
    /\ JustWritten =>
          LET cs == CallsAt(LastEv.pos)
          IN  \A i \in DOMAIN cs :
                 fs[LastEv.path].map[cs[i].key] = PlaceholderFor(cs[i].resp)

\* two keys with the same source value were answered differently and stored
C3_Witness ==
    /\ JustWritten
    /\ \E i, j \in DOMAIN CallsAt(LastEv.pos) :
          /\ i < j
          /\ CallsAt(LastEv.pos)[i].text = CallsAt(LastEv.pos)[j].text
          /\ CallsAt(LastEv.pos)[i].resp # CallsAt(LastEv.pos)[j].resp
          /\ fs[LastEv.path].map[CallsAt(LastEv.pos)[i].key]
                # fs[LastEv.path].map[CallsAt(LastEv.pos)[j].key]

\* C4: a run that follows a completed run makes no backend call, and every
\* file it writes holds what the completed run left in it.
C4_RerunIdempotent ==
    run >= 2 =>
        /\ CallIdx = {}
        /\ \A w \in Idx("write") : log[w].data = prev.fs[log[w].path]
        /\ fs = prev.fs

\* the second run completed after a first run that translated for two
\* different languages
C4_Witness ==
    /\ run = 2
    /\ pc = "done"
    /\ Cardinality(Idx("write")) >= 2
    /\ \E i, j \in DOMAIN prev.log :
          /\ prev.log[i].op = "call" /\ prev.log[j].op = "call"
          /\ prev.log[i].lang # prev.log[j].lang

\* C5 as stated: with a backend that returns its input, a missing key whose
\* source value contains "@", be it a single one, is stored with "{}" and
\* without any "@".
C5_AnyRunLength ==
    JustWritten =>
        LET cs == CallsAt(LastEv.pos)
        IN  \A i \in DOMAIN cs :
               (cs[i].resp = cs[i].text /\ HasAt(SourceValue(cs[i].key))) =>
                  /\ HasPlaceholder(fs[LastEv.path].map[cs[i].key])
                  /\ ~HasAt(fs[LastEv.path].map[cs[i].key])

\* C5: with a backend that returns its input, a missing key whose source
\* value contains a run of two or more "@" is stored as the source value
\* with each such run replaced by one "{}": it contains "{}" and no run of
\* two or more "@".  A single "@" is no marker and stays.
C5_RunOfTwoOrMore ==
    JustWritten =>
        LET cs == CallsAt(LastEv.pos)
        IN  \A i \in DOMAIN cs :
               (cs[i].resp = cs[i].text /\ HasMarkerRun(SourceValue(cs[i].key))) =>
                  /\ fs[LastEv.path].map[cs[i].key]
                        = PlaceholderFor(SourceValue(cs[i].key))
                  /\ HasPlaceholder(fs[LastEv.path].map[cs[i].key])
                  /\ ~HasMarkerRun(fs[LastEv.path].map[cs[i].key])

\* a value with a run of three "@" went through an echoing backend
C5_Witness ==
    /\ JustWritten
    /\ \E i \in DOMAIN CallsAt(LastEv.pos) :
          LET c == CallsAt(LastEv.pos)[i]
          IN  /\ c.resp = c.text
              /\ \E j \in 1..(Len(SourceValue(c.key)) - 2) :
                    \A h \in j..(j + 2) : SourceValue(c.key)[h] = "@"
              /\ HasPlaceholder(fs[LastEv.path].map[c.key])

\* C6: once a backend call has failed the run is over: the failed call is
\* the last thing the run did, and every target file holds what the last
\* write of this run put there or, when the run did not write it, what it
\* held when the run started; so the file of the language in progress is as
\* that language's iteration found it, although translations were recorded.
C6_BackendFailureIsFatal ==
    \A f \in Idx("fail") :
        /\ f = Len(log)
        /\ pc = "crashed"
        /\ \A p \in TargetPaths :
              LET ws == {w \in Idx("write") : log[w].path = p}
              IN  fs[p] = IF ws = {} THEN prev.fs[p]
                          ELSE log[CHOOSE w \in ws : \A v \in ws : v <= w].data
        /\ \A w \in Idx("write") : log[w].pos < log[f].pos
        /\ fs[out_path] = IF \E r \in Idx("read") : log[r].pos = log[f].pos
                          THEN MapDoc(Loaded(log[f].pos)) ELSE Absent

\* the backend failed in the second language after answering there, the
\* first language's file having been written with new translations
C6_Witness ==
    /\ Idx("fail") # {}
    /\ li = 2
    /\ Len(lines) >= 1
    /\ Idx("write") # {}
    /\ CallsAt(1) # <<>>
    /\ langs[1] # langs[2]

\* C7 as stated: every target file that is read or written lies in the
\* directory of the source and has the extension of the source.
C7_SourceExtension ==
    \A i \in Idx("read") \cup Idx("write") :
        log[i].path = Path(srcPath.dir, langs[log[i].pos], srcPath.ext)

\* C7: the file an iteration reads and the file it writes are the same
\* path, in the directory of the source, named "<language>.yaml" whatever
\* the extension of the source; no other file is read or changed.
C7_YamlExtension ==
    /\ \A i \in Idx("read") \cup Idx("write") :
          log[i].path = Path(srcPath.dir, langs[log[i].pos], "yaml")
    /\ \A i \in Idx("read") :
          log[i].data = IF \E w \in Idx("write") : w < i /\ log[w].path = log[i].path
                        THEN fs[log[i].path] ELSE prev.fs[log[i].path]
    /\ \A p \in TargetPaths :
          fs[p] # prev.fs[p] => \E w \in Idx("write") : log[w].path = p

\* a source named .yml in a directory; the target was read and written as
\* .yaml there, while a .yml file of the language's name exists beside it
C7_Witness ==
    /\ JustWritten
    /\ srcPath = Path("res", "en", "yml")
    /\ \E r \in Idx("read") : log[r].pos = LastEv.pos /\ log[r].path = LastEv.path
    /\ prev.fs[Path("res", LastEv.lang, "yml")] # Absent
    /\ prev.fs[Path("", LastEv.lang, "yaml")] = Absent

\* C8: the log runs through the languages in the order of the list and
\* never goes back; an iteration writes its file at most once, as its last
\* file or backend operation; a completed run has written once for every
\* entry of the list, also for an entry with no missing key.
C8_WriteOnceInOrder ==
    /\ \A i, j \in DOMAIN log : i < j => log[i].pos <= log[j].pos
    /\ \A i \in DOMAIN log :
          /\ log[i].lang = langs[log[i].pos]
          /\ log[i].op \in {"read", "write"} => log[i].path.stem = langs[log[i].pos]
    /\ \A w \in Idx("write") : \A j \in DOMAIN log : j > w => log[j].pos > log[w].pos
    /\ \A i \in DOMAIN log : log[i].pos <= li
    /\ pc = "done" =>
          \A p \in 1..Len(langs) :
             Cardinality({w \in Idx("write") : log[w].pos = p}) = 1

\* a completed run over two languages: calls for the first, none for the
\* second, and a write for each
C8_Witness ==
    /\ pc = "done"
    /\ Len(langs) = 2
    /\ langs[1] # langs[2]
    /\ Len(CallsAt(1)) >= 2
    /\ CallsAt(2) = <<>>
    /\ Cardinality(Idx("write")) = 2

\* C9 as stated: a "complete" diagnostic of an iteration comes after the
\* write of that iteration's file.
C9_CompleteAfterWrite ==
    \A c \in Idx("complete") :
        \E w \in Idx("write") : w < c /\ log[w].pos = log[c].pos

\* C9: the "complete" diagnostic of an iteration comes after the last
\* backend call of the iteration and right before the write of its file.
C9_CompleteBeforeWrite ==
    /\ \A c \in Idx("complete") :
          /\ \A i \in DOMAIN log : (i > c /\ log[i].pos = log[c].pos) =>
                (i = c + 1 /\ log[i].op = "write")
          /\ \A i \in CallIdx : log[i].pos = log[c].pos => i < c
    /\ \A w \in Idx("write") :
          w > 1 /\ log[w - 1].op = "complete" /\ log[w - 1].pos = log[w].pos

\* "complete" was printed after two calls and the file is not written yet
C9_Witness ==
    /\ pc = "merge"
    /\ log[Len(log)].op = "complete"
    /\ Len(CallsAt(li)) >= 2
    /\ fs[out_path] = Absent

\* C10: no text submitted to the backend contains a run of two or more "@",
\* and no value stored for a newly translated key does, whatever the
\* backend answered; a value that was in the target before is written back
\* as it was loaded.
C10_MarkerFreedom ==
    /\ \A c \in CallIdx : ~HasMarkerRun(log[c].text)
    /\ JustWritten =>
          /\ \A i \in DOMAIN CallsAt(LastEv.pos) :
                ~HasMarkerRun(fs[LastEv.path].map[CallsAt(LastEv.pos)[i].key])
          /\ \A k \in DOMAIN Loaded(LastEv.pos) :
                fs[LastEv.path].map[k] = Loaded(LastEv.pos)[k]

\* the backend answered with a run of "@" for a source value with a run of
\* "@"; the file also keeps an older value that contains such a run
C10_Witness ==
    /\ JustWritten
    /\ \E i \in DOMAIN CallsAt(LastEv.pos) :
          /\ HasMarkerRun(CallsAt(LastEv.pos)[i].resp)
          /\ HasMarkerRun(SourceValue(CallsAt(LastEv.pos)[i].key))
    /\ \E k \in DOMAIN fs[LastEv.path].map : HasMarkerRun(fs[LastEv.path].map[k])

====
